---------------------------- MODULE Spec2Model ----------------------------
(***************************************************************************)
(* Attention-backend selection (vllm/attention/selector.py): the forced    *)
(* override slot, the scoped override context manager, and the memoized    *)
(* resolution _cached_get_attn_backend, run by one or by two threads.      *)
(* Pass identities (vllm/compilation/inductor_pass.py): hash_source,       *)
(* hash_dict, the default uuid and CallableInductorPass.                   *)
(***************************************************************************)
EXTENDS Integers, Sequences, FiniteSets, TLC

(***************************************************************************)
(* Bounds of the model.                                                    *)
(***************************************************************************)
\* deepest nesting of scoped overrides one thread opens
MaxDepth == 2

\* most distinct keys the memo table holds in one run
MaxCached == 2

\* longest text passed to hash_source, in characters
MaxLen == 2

\* most arguments of one hash_source call
MaxArgs == 2

\* most entries of a mapping passed to hash_dict
MaxEntries == 2

\* most pass objects constructed in one run
MaxPasses == 2

(***************************************************************************)
(* Values.                                                                 *)
(***************************************************************************)
Threads == {"T1", "T2"}

\* Python's None where an Optional[_Backend] is expected
NoBackend == 0

\* the in-tree enum _Backend: member name |-> enum value
Backend == [FLASH_ATTN |-> 1, XFORMERS |-> 2]

BackendValues == {Backend[n] : n \in DOMAIN Backend}

ForcedValues == BackendValues \cup {NoBackend}

\* the environment variable is not set (os.environ.get gives None)
EnvUnset == "<unset>"

EnvValues == {EnvUnset, "FLASH_ATTN", "XFORMERS", "NOT_A_REAL_BACKEND"}

\* the parameters a caller may pass to get_attn_backend
AllArgs ==
    [head_size : {64}, dtype : {"float16", "float32"},
     kv_cache_dtype : {"auto"}, block_size : {16},
     is_attention_free : BOOLEAN, is_blocksparse : BOOLEAN,
     use_mla : {FALSE}]

\* the callers that ask for a regular attention backend
PlainArgs == {a \in AllArgs : ~a.is_blocksparse /\ ~a.is_attention_free}

\* the calls of a run: the dtype, which only the platform reads, varies
\* where the platform is asked
Args == {a \in AllArgs : a.dtype = "float16" \/ a \in PlainArgs}

\* a plausible slip: the flag is left out of the memoized function's
\* arguments and read behind the cache
KeyOf_without_flag(a, flag) ==
    [head_size |-> a.head_size, dtype |-> a.dtype,
     kv_cache_dtype |-> a.kv_cache_dtype, block_size |-> a.block_size,
     is_attention_free |-> a.is_attention_free,
     is_blocksparse |-> a.is_blocksparse,
     use_v1 |-> FALSE, use_mla |-> a.use_mla]

\* the arguments of _cached_get_attn_backend: what functools.cache keys on
KeyOf(a, flag) ==
    [head_size |-> a.head_size, dtype |-> a.dtype,
     kv_cache_dtype |-> a.kv_cache_dtype, block_size |-> a.block_size,
     is_attention_free |-> a.is_attention_free,
     is_blocksparse |-> a.is_blocksparse,
     use_v1 |-> flag, use_mla |-> a.use_mla]

Keys == {KeyOf(a, f) : a \in Args, f \in BOOLEAN}

NoKey ==
    [head_size |-> 0, dtype |-> "", kv_cache_dtype |-> "", block_size |-> 0,
     is_attention_free |-> FALSE, is_blocksparse |-> FALSE,
     use_v1 |-> FALSE, use_mla |-> FALSE]

\* no class: the call returned nothing
NoClass == [module |-> "", name |-> ""]

BlocksparseFlashAttentionBackend ==
    [module |-> "vllm.attention.backends.blocksparse_attn",
     name |-> "BlocksparseFlashAttentionBackend"]

PlaceholderAttentionBackend ==
    [module |-> "vllm.attention.backends.placeholder_attn",
     name |-> "PlaceholderAttentionBackend"]

(***************************************************************************)
(* Pure functions.                                                         *)
(***************************************************************************)
\* a plausible slip: an unknown name falls back to the first member
backend_name_to_enum_first(backend_name) ==
    IF backend_name \in DOMAIN Backend
    THEN Backend[backend_name] ELSE Backend.FLASH_ATTN

backend_name_to_enum(backend_name) ==
    IF backend_name \in DOMAIN Backend
    THEN Backend[backend_name] ELSE NoBackend

\* The platform's resolver, simulated: a qualified name <<module, class>>,
\* or the empty name <<>> when the platform cannot serve the request.
\* FLASH_ATTN serves float16 only; with no selection the platform takes
\* FLASH_ATTN when it can and XFORMERS otherwise.
get_attn_backend_cls(selected_backend, head_size, dtype, kv_cache_dtype, block_size, use_v1, use_mla) ==
    LET flash_ok == dtype = "float16"
        chosen == IF selected_backend = NoBackend
                  THEN (IF flash_ok THEN Backend.FLASH_ATTN
                        ELSE Backend.XFORMERS)
                  ELSE selected_backend
        package == IF use_v1 THEN "vllm.v1.attention.backends"
                   ELSE "vllm.attention.backends"
    IN  IF chosen = Backend.FLASH_ATTN /\ ~flash_ok THEN <<>>
        ELSE IF chosen = Backend.FLASH_ATTN
        THEN <<package, "flash_attn", "FlashAttentionBackend">>
        ELSE <<package, "xformers", "XFormersBackend">>

\* the platform's answer for a key and a selection
PlatformFor(selected_backend, key) ==
    get_attn_backend_cls(selected_backend, key.head_size, key.dtype,
                         key.kv_cache_dtype, key.block_size, key.use_v1,
                         key.use_mla)

\* import the module named by the qualified name and take the class from it
resolve_obj_by_qualname(qualname) ==
    [module |-> qualname[1] \o "." \o qualname[2], name |-> qualname[3]]

(***************************************************************************)
(* State.                                                                  *)
(***************************************************************************)
VARIABLES
    forced_attn_backend,    \* the module global (selector.py line 55)
    VLLM_ATTENTION_BACKEND, \* envs.VLLM_ATTENTION_BACKEND
    VLLM_USE_V1,            \* envs.VLLM_USE_V1
    cache,                  \* the dict of functools.cache: key |-> class
    pc,                     \* where each thread stands
    local,                  \* the local variables of each thread's call
    stack,                  \* each thread's open scoped overrides, innermost last
    obs,                    \* the operation that has just completed
    observed,               \* key |-> the first class any caller was handed
    mutex,                  \* the host's lock around override changes
    host_serializes,        \* whether the host takes that lock
    source,                 \* name |-> the text inspect.getsource finds for it
    passes,                 \* the pass objects constructed so far
    input,                  \* the arguments of the hash call to be made
    ident,                  \* the hash or uuid operation that has just completed
    prev                    \* the uuid call completed before that one

\* the state of the pass objects and of the hashing functions
pvars == <<source, passes, input, ident, prev>>

(***************************************************************************)
(* Hashing (inductor_pass.py lines 36-61).  A text is a sequence of        *)
(* characters, a character a one-letter string; "e_acute" stands for       *)
(* U+00E9.                                                                 *)
(***************************************************************************)
Chars == {"a", "e_acute"}

\* the texts of at most n characters
TextsUpTo(n) == UNION {[1..k -> Chars] : k \in 0..n}

Texts == TextsUpTo(MaxLen)

HexDigits == <<"0", "1", "2", "3", "4", "5", "6", "7", "8", "9",
               "a", "b", "c", "d", "e", "f">>

\* Python's ord() on the characters the model writes
ord(c) ==
    CASE c = " " -> 32
      [] c = "\"" -> 34
      [] c = "," -> 44
      [] c = ":" -> 58
      [] c = "[" -> 91
      [] c = "\\" -> 92
      [] c = "]" -> 93
      [] c = "u" -> 117
      [] c = "{" -> 123
      [] c = "}" -> 125
      [] c = "e_acute" -> 233
      [] \E i \in 1..10 : HexDigits[i] = c ->
             47 + (CHOOSE i \in 1..10 : HexDigits[i] = c)
      [] \E i \in 11..16 : HexDigits[i] = c ->
             86 + (CHOOSE i \in 11..16 : HexDigits[i] = c)

\* one character in UTF-8 (code points below U+0800)
utf8_char(c) ==
    IF ord(c) < 128
    THEN <<ord(c)>>
    ELSE <<192 + (ord(c) \div 64), 128 + (ord(c) % 64)>>

\* str.encode("utf-8"), lines 51 and 60
RECURSIVE encode(_)
encode(text) ==
    IF text = <<>> THEN <<>>
    ELSE utf8_char(Head(text)) \o encode(Tail(text))

\* hashlib.sha256(...).hexdigest(): the hash is taken as injective, a
\* digest stands for the bytes that were hashed
hexdigest(hasher) == [hex |-> hasher]

\* where a call gave no digest
NoDigest == [hex |-> <<-1>>]

\* an argument of hash_source: a str, a plain function, a bound method, a
\* built-in function, or an instance of a class
StrSrc(text) == [kind |-> "str", text |-> text, name |-> ""]

FunctionSrc(name) == [kind |-> "function", text |-> <<>>, name |-> name]

MethodSrc(name) == [kind |-> "method", text |-> <<>>, name |-> name]

BuiltinSrc(name) == [kind |-> "builtin", text |-> <<>>, name |-> name]

ObjectSrc(cls) == [kind |-> "object", text |-> <<>>, name |-> cls]

\* the classes of the interpreter itself: inspect finds no file for them
BuiltinClasses == {"method", "builtin_function_or_method"}

\* src.__class__, line 50
class_of(src) ==
    CASE src.kind = "object" -> src.name
      [] src.kind = "method" -> "method"
      [] src.kind = "builtin" -> "builtin_function_or_method"
      [] src.kind = "function" -> "function"
      [] src.kind = "str" -> "str"

\* inspect.getsource(object) for a function or a class: TypeError for a
\* built-in class, OSError where no source text can be found
getsource(name) ==
    IF name \in BuiltinClasses
    THEN [outcome |-> "TypeError", text |-> <<>>]
    ELSE IF name \notin DOMAIN source
    THEN [outcome |-> "OSError", text |-> <<>>]
    ELSE [outcome |-> "return", text |-> source[name]]

\* lines 45-50: the text one argument adds to the hash
src_str(src) ==
    IF src.kind = "str"
    THEN [outcome |-> "return", text |-> src.text]
    ELSE IF src.kind = "function"
    THEN getsource(src.name)
    ELSE getsource(class_of(src))

\* lines 44-51: the loop over the arguments, feeding one hasher
RECURSIVE hash_update(_, _)
hash_update(hasher, srcs) ==
    IF srcs = <<>>
    THEN [outcome |-> "return", hasher |-> hasher]
    ELSE LET s == src_str(Head(srcs))
         IN  IF s.outcome # "return"
             THEN [outcome |-> s.outcome, hasher |-> hasher]
             ELSE hash_update(hasher \o encode(s.text), Tail(srcs))

\* a plausible slip: every argument starts a fresh hasher
RECURSIVE hash_source_last_only(_)
hash_source_last_only(srcs) ==
    IF Len(srcs) <= 1
    THEN LET r == hash_update(<<>>, srcs)
         IN  [outcome |-> r.outcome,
              digest |-> IF r.outcome = "return" THEN hexdigest(r.hasher)
                         ELSE NoDigest]
    ELSE LET s == src_str(Head(srcs))
         IN  IF s.outcome # "return"
             THEN [outcome |-> s.outcome, digest |-> NoDigest]
             ELSE hash_source_last_only(Tail(srcs))

\* hash_source(*srcs), lines 36-52
hash_source(srcs) ==
    LET r == hash_update(<<>>, srcs)
    IN  [outcome |-> r.outcome,
         digest |-> IF r.outcome = "return" THEN hexdigest(r.hasher)
                    ELSE NoDigest]

\* a value of a mapping: an int, a list of ints or a tuple of ints
IntValue(n) == [kind |-> "int", items |-> <<n>>]

ListValue(items) == [kind |-> "list", items |-> items]

TupleValue(items) == [kind |-> "tuple", items |-> items]

\* json.dumps of an int below 10
dumps_int(n) == <<HexDigits[n + 1]>>

RECURSIVE dumps_items(_)
dumps_items(items) ==
    IF items = <<>> THEN <<>>
    ELSE IF Len(items) = 1 THEN dumps_int(items[1])
    ELSE dumps_int(items[1]) \o <<",", " ">> \o dumps_items(Tail(items))

\* json.dumps of a value: a tuple is written as a list is
dumps_value(v) ==
    IF v.kind = "int" THEN dumps_int(v.items[1])
    ELSE <<"[">> \o dumps_items(v.items) \o <<"]">>

\* ensure_ascii: a character above U+007F is written as \uXXXX
dumps_char(c) ==
    IF ord(c) < 128
    THEN <<c>>
    ELSE <<"\\", "u", HexDigits[((ord(c) \div 4096) % 16) + 1],
           HexDigits[((ord(c) \div 256) % 16) + 1],
           HexDigits[((ord(c) \div 16) % 16) + 1],
           HexDigits[(ord(c) % 16) + 1]>>

RECURSIVE dumps_chars(_)
dumps_chars(text) ==
    IF text = <<>> THEN <<>>
    ELSE dumps_char(Head(text)) \o dumps_chars(Tail(text))

dumps_str(text) == <<"\"">> \o dumps_chars(text) \o <<"\"">>

\* Python's < on two str: by code point, a prefix first
RECURSIVE str_lt(_, _)
str_lt(x, y) ==
    IF y = <<>> THEN FALSE
    ELSE IF x = <<>> THEN TRUE
    ELSE IF ord(Head(x)) # ord(Head(y)) THEN ord(Head(x)) < ord(Head(y))
    ELSE str_lt(Tail(x), Tail(y))

\* a mapping is the sequence of its entries in insertion order, the keys
\* distinct; sorted(dict_.items()) as sort_keys=True has it
RECURSIVE sorted_items(_)
sorted_items(items) ==
    IF items = <<>> THEN <<>>
    ELSE LET least == CHOOSE i \in DOMAIN items :
                          \A j \in DOMAIN items \ {i} :
                              str_lt(items[i].key, items[j].key)
         IN  <<items[least]>> \o
             sorted_items(SubSeq(items, 1, least - 1) \o
                          SubSeq(items, least + 1, Len(items)))

RECURSIVE dumps_entries(_)
dumps_entries(items) ==
    IF items = <<>> THEN <<>>
    ELSE dumps_str(items[1].key) \o <<":", " ">> \o dumps_value(items[1].value)
         \o (IF Len(items) = 1 THEN <<>>
             ELSE <<",", " ">> \o dumps_entries(Tail(items)))

\* json.dumps(dict_, sort_keys=...), line 60
json_dumps(dict_, sort_keys) ==
    <<"{">> \o dumps_entries(IF sort_keys THEN sorted_items(dict_) ELSE dict_)
    \o <<"}">>

\* a plausible slip: the entries are written in insertion order
hash_dict_insertion_order(dict_) == hexdigest(encode(json_dumps(dict_, FALSE)))

\* hash_dict(dict_), lines 54-61
hash_dict(dict_) == hexdigest(encode(json_dumps(dict_, TRUE)))


vars ==
    <<forced_attn_backend, VLLM_ATTENTION_BACKEND, VLLM_USE_V1, cache, pc,
      local, stack, obs, observed, mutex, host_serializes, pvars>>

\* The locals of a call that has not started.  Beside the code's own
\* locals, a call records for its caller's view: known (a class was
\* returned for the key before this call), hit (the memo table answered),
\* platform_calls (how often the platform was asked) and seen (the override
\* at the moment a scoped override was entered).
NoLocal ==
    [key |-> NoKey, known |-> FALSE, hit |-> FALSE,
     backend_by_global_setting |-> NoBackend,
     backend_by_env_var |-> EnvUnset, selected_backend |-> NoBackend,
     platform_calls |-> 0, attention_cls |-> <<>>, result |-> NoClass,
     attn_backend |-> NoBackend, original_value |-> NoBackend,
     seen |-> NoBackend]

NoObs ==
    [op |-> "none", thread |-> "", outcome |-> "none", call |-> NoLocal,
     before |-> NoBackend, after |-> NoBackend]

Completed(op, t, outcome, call, before, after) ==
    [op |-> op, thread |-> t, outcome |-> outcome, call |-> call,
     before |-> before, after |-> after]

\* the dict after d[key] = value
DictSet(d, key, value) ==
    [k \in DOMAIN d \cup {key} |-> IF k = key THEN value ELSE d[k]]

EmptyDict == [k \in {} |-> NoClass]

\* the keys of the calls in flight
InFlight == {local[t].key : t \in {u \in Threads : pc[u] # "idle"}} \ {NoKey}

(***************************************************************************)
(* Pass objects and the inputs of the hashing functions.                   *)
(***************************************************************************)
\* the definitions inspect finds source text for: two pass classes, PassB
\* a subclass of PassA, a class with __call__, a plain function and the
\* method a bound method is bound to; the function "g" (typed at a prompt)
\* and the built-in "len" have none
LoadedSource ==
    [n \in {"PassA", "PassB", "Functor", "f", "m"} |->
        CASE n = "PassA" -> <<"a">>
          [] n = "PassB" -> <<"b">>
          [] n = "Functor" -> <<"a", "b">>
          [] n = "f" -> <<"e_acute">>
          [] n = "m" -> <<"b", "a">>]

\* the texts a run rewrites a definition to
EditedTexts == {<<"a">>, <<"e_acute", "b">>}

\* the arguments tried on hash_source
SrcValues ==
    {StrSrc(t) : t \in Texts}
        \cup {FunctionSrc("f"), FunctionSrc("g"), MethodSrc("m"),
              BuiltinSrc("len"), ObjectSrc("PassA"), ObjectSrc("Functor")}

SrcLists == UNION {[1..k -> SrcValues] : k \in 0..MaxArgs}

\* the entries tried on hash_dict
JsonKeys == {<<"a">>, <<"a", "b">>, <<"e_acute">>}

JsonValues ==
    {IntValue(1), IntValue(2), ListValue(<<1, 2>>), TupleValue(<<1, 2>>)}

Entries == [key : JsonKeys, value : JsonValues]

Dicts ==
    {d \in UNION {[1..k -> Entries] : k \in 0..MaxEntries} :
        \A i, j \in DOMAIN d : i # j => d[i].key # d[j].key}

NoInput == [op |-> "none", srcs |-> <<>>, dict_ |-> <<>>]

Inputs ==
    {[op |-> "hash_source", srcs |-> l, dict_ |-> <<>>] : l \in SrcLists}
        \cup {[op |-> "hash_dict", srcs |-> <<>>, dict_ |-> d] : d \in Dicts}

\* no callable: the object is not a CallableInductorPass
NoSrc == [kind |-> "none", text |-> <<>>, name |-> ""]

\* a pass object: its class, and for a CallableInductorPass the callable
\* and _uuid of lines 73-74; field is an attribute a pass class keeps,
\* invoked tells whether __call__ has run, any number of times
NewPass(cls, callable, uuid, field) ==
    [cls |-> cls, callable |-> callable, _uuid |-> uuid, field |-> field,
     invoked |-> FALSE]

NoPass == NewPass("", NoSrc, NoDigest, 0)

PassClasses == {"PassA", "PassB"}

\* the callables wrapped, and the digests a caller hands in (None is
\* NoDigest): a digest made elsewhere
Callables == {FunctionSrc("f"), FunctionSrc("g")}

GivenUuids == {hexdigest(<<0>>)}

\* the text inspect finds for what a pass object is hashed by: its class,
\* or the callable it wraps; empty where there is none
SourceOf(self) ==
    IF self.cls \in DOMAIN source THEN source[self.cls]
    ELSE IF self.callable.name \in DOMAIN source
    THEN source[self.callable.name]
    ELSE <<>>

\* the hash or uuid operation that has just completed, with the pass it was
\* called on as it then was: its class, its source text, and its state
\* (field; for a CallableInductorPass 1 once it has been invoked)
NoIdent ==
    [op |-> "none", outcome |-> "none", digest |-> NoDigest, pass |-> 0,
     cls |-> "", given |-> NoDigest, text |-> <<>>, state |-> 0]

Identified(op, outcome, digest, pass, self, given) ==
    [op |-> op, outcome |-> outcome, digest |-> digest, pass |-> pass,
     cls |-> self.cls, given |-> given, text |-> SourceOf(self),
     state |-> IF self.cls \in PassClasses THEN self.field
               ELSE IF self.invoked THEN 1 ELSE 0]

\* no pass was built and no hash was asked for
PassesIdle ==
    /\ source = LoadedSource
    /\ passes = <<>>
    /\ input = NoInput
    /\ ident = NoIdent
    /\ prev = NoIdent

Init ==
    /\ forced_attn_backend = NoBackend
    /\ VLLM_ATTENTION_BACKEND \in EnvValues
    /\ VLLM_USE_V1 \in BOOLEAN
    /\ cache = EmptyDict
    /\ pc = [t \in Threads |-> "idle"]
    /\ local = [t \in Threads |-> NoLocal]
    /\ stack = [t \in Threads |-> <<>>]
    /\ obs = NoObs
    /\ observed = EmptyDict
    /\ mutex = "free"
    /\ host_serializes = FALSE
    /\ PassesIdle

(***************************************************************************)
(* The forced override.                                                    *)
(***************************************************************************)
get_global_forced_attn_backend == forced_attn_backend

\* a plausible slip: None is taken for "no change" and does not clear
global_force_attn_backend_unless_none(attn_backend) ==
    forced_attn_backend' =
        IF attn_backend = NoBackend THEN forced_attn_backend ELSE attn_backend

\* global_force_attn_backend(attn_backend), lines 69-70
global_force_attn_backend(attn_backend) ==
    forced_attn_backend' = attn_backend

\* a thread calls global_force_attn_backend(v)
SetForced(t, v) ==
    /\ pc[t] = "idle"
    /\ global_force_attn_backend(v)
    /\ obs' = Completed("set", t, "return", NoLocal, forced_attn_backend, v)
    /\ UNCHANGED <<VLLM_ATTENTION_BACKEND, VLLM_USE_V1, cache, pc, local,
                   stack, observed, mutex, host_serializes, pvars>>

\* a thread calls get_global_forced_attn_backend()
GetForced(t) ==
    /\ pc[t] = "idle"
    /\ obs' = Completed("get", t, "return", NoLocal, forced_attn_backend,
                        get_global_forced_attn_backend)
    /\ UNCHANGED <<forced_attn_backend, VLLM_ATTENTION_BACKEND, VLLM_USE_V1,
                   cache, pc, local, stack, observed, mutex, host_serializes, pvars>>

\* the process changes the environment variable
SetEnv(t, v) ==
    /\ pc[t] = "idle"
    /\ v # VLLM_ATTENTION_BACKEND
    /\ VLLM_ATTENTION_BACKEND' = v
    /\ obs' = NoObs
    /\ UNCHANGED <<forced_attn_backend, VLLM_USE_V1, cache, pc, local, stack,
                   observed, mutex, host_serializes, pvars>>

\* the process changes the feature flag
SetFlag(t, b) ==
    /\ pc[t] = "idle"
    /\ b # VLLM_USE_V1
    /\ VLLM_USE_V1' = b
    /\ obs' = NoObs
    /\ UNCHANGED <<forced_attn_backend, VLLM_ATTENTION_BACKEND, cache, pc,
                   local, stack, observed, mutex, host_serializes, pvars>>

(***************************************************************************)
(* global_force_attn_backend_context_manager, lines 152-181.               *)
(***************************************************************************)
\* a plausible slip: the override is saved after the new one is in place
saved_value_after_install(attn_backend) == attn_backend

\* line 171: the value the entry saves
saved_value(attn_backend) == get_global_forced_attn_backend

\* line 171: save the current override
EnterRead(t, v) ==
    /\ pc[t] = "idle"
    /\ Len(stack[t]) < MaxDepth
    /\ pc' = [pc EXCEPT ![t] = "enter_set"]
    /\ local' = [local EXCEPT ![t] =
                    [NoLocal EXCEPT !.attn_backend = v,
                                    !.original_value = saved_value(v),
                                    !.seen = forced_attn_backend]]
    /\ obs' = NoObs
    /\ UNCHANGED <<forced_attn_backend, VLLM_ATTENTION_BACKEND, VLLM_USE_V1,
                   cache, stack, observed, mutex, host_serializes, pvars>>

\* line 174: force the new override; the body runs from here
EnterSet(t) ==
    /\ pc[t] = "enter_set"
    /\ global_force_attn_backend(local[t].attn_backend)
    /\ stack' = [stack EXCEPT ![t] =
                    Append(@, [original_value |-> local[t].original_value,
                               seen |-> local[t].seen])]
    /\ pc' = [pc EXCEPT ![t] = "idle"]
    /\ local' = [local EXCEPT ![t] = NoLocal]
    /\ obs' = Completed("enter", t, "none", NoLocal, local[t].seen,
                        local[t].attn_backend)
    /\ UNCHANGED <<VLLM_ATTENTION_BACKEND, VLLM_USE_V1, cache, observed,
                   mutex, host_serializes, pvars>>

\* a plausible slip: the exit clears the override instead of reverting it
revert_value_none(frame) == NoBackend

\* line 181: the value the exit puts back
revert_value(frame) == frame.original_value

\* lines 179-181: the body returned or raised; revert the override
ExitScope(t, how) ==
    /\ pc[t] = "idle"
    /\ stack[t] # <<>>
    /\ LET frame == stack[t][Len(stack[t])]
       IN  /\ global_force_attn_backend(revert_value(frame))
           /\ obs' = Completed("exit", t, how, NoLocal, frame.seen,
                               revert_value(frame))
    /\ stack' = [stack EXCEPT ![t] = SubSeq(@, 1, Len(@) - 1)]
    /\ UNCHANGED <<VLLM_ATTENTION_BACKEND, VLLM_USE_V1, cache, pc, local,
                   observed, mutex, host_serializes, pvars>>

(***************************************************************************)
(* get_attn_backend and _cached_get_attn_backend, lines 81-149.  Each      *)
(* step below reads or writes shared state once, so that two threads       *)
(* interleave as the interpreter lets them.                                *)
(***************************************************************************)
\* the memo table has room for the key
Room(key) ==
    \/ key \in DOMAIN cache \cup InFlight
    \/ Cardinality(DOMAIN cache \cup InFlight) < MaxCached

\* lines 93-102: read the flag and call the memoized function
Call(t, a) ==
    /\ pc[t] = "idle"
    /\ LET key == KeyOf(a, VLLM_USE_V1)
       IN  /\ Room(key)
           /\ local' = [local EXCEPT ![t] =
                           [NoLocal EXCEPT !.key = key,
                                           !.known = key \in DOMAIN observed]]
    /\ pc' = [pc EXCEPT ![t] = "lookup"]
    /\ obs' = NoObs
    /\ UNCHANGED <<forced_attn_backend, VLLM_ATTENTION_BACKEND, VLLM_USE_V1,
                   cache, stack, observed, mutex, host_serializes, pvars>>

\* the call hands a class back to its caller
Return(t, call) ==
    /\ obs' = Completed("resolve", t, "return", call, forced_attn_backend,
                        forced_attn_backend)
    /\ observed' = IF call.key \in DOMAIN observed THEN observed
                   ELSE DictSet(observed, call.key, call.result)
    /\ pc' = [pc EXCEPT ![t] = "idle"]
    /\ local' = [local EXCEPT ![t] = NoLocal]

\* a plausible slip: the memo is bypassed while an override is forced
cache_lookup_unless_forced(d, key) ==
    IF key \in DOMAIN d /\ forced_attn_backend = NoBackend
    THEN [hit |-> TRUE, result |-> d[key]]
    ELSE [hit |-> FALSE, result |-> NoClass]

\* line 105, functools.cache: look the key up
cache_lookup(d, key) ==
    IF key \in DOMAIN d THEN [hit |-> TRUE, result |-> d[key]]
    ELSE [hit |-> FALSE, result |-> NoClass]

Lookup(t) ==
    /\ pc[t] = "lookup"
    /\ LET found == cache_lookup(cache, local[t].key)
       IN  IF found.hit
           THEN Return(t, [local[t] EXCEPT !.hit = TRUE,
                                           !.result = found.result])
           ELSE /\ pc' = [pc EXCEPT ![t] = "body"]
                /\ UNCHANGED <<local, obs, observed>>
    /\ UNCHANGED <<forced_attn_backend, VLLM_ATTENTION_BACKEND, VLLM_USE_V1,
                   cache, stack, mutex, host_serializes, pvars>>

\* a plausible slip: the attention-free test comes first
body_attention_free_first(l, forced) ==
    IF l.key.is_attention_free
    THEN [next |-> "store", l |-> [l EXCEPT !.result = PlaceholderAttentionBackend]]
    ELSE IF l.key.is_blocksparse
    THEN [next |-> "store", l |-> [l EXCEPT !.result = BlocksparseFlashAttentionBackend]]
    ELSE IF forced # NoBackend
    THEN [next |-> "platform",
          l |-> [l EXCEPT !.backend_by_global_setting = forced,
                          !.selected_backend = forced]]
    ELSE [next |-> "read_env", l |-> l]

\* a plausible slip: a forced override is honoured before the attention-free test
body_forced_first(l, forced) ==
    IF l.key.is_blocksparse
    THEN [next |-> "store", l |-> [l EXCEPT !.result = BlocksparseFlashAttentionBackend]]
    ELSE IF forced # NoBackend
    THEN [next |-> "platform",
          l |-> [l EXCEPT !.backend_by_global_setting = forced,
                          !.selected_backend = forced]]
    ELSE IF l.key.is_attention_free
    THEN [next |-> "store", l |-> [l EXCEPT !.result = PlaceholderAttentionBackend]]
    ELSE [next |-> "read_env", l |-> l]

\* a plausible slip: the environment variable is consulted whatever is forced
body_env_first(l, forced) ==
    IF l.key.is_blocksparse
    THEN [next |-> "store", l |-> [l EXCEPT !.result = BlocksparseFlashAttentionBackend]]
    ELSE IF l.key.is_attention_free
    THEN [next |-> "store", l |-> [l EXCEPT !.result = PlaceholderAttentionBackend]]
    ELSE [next |-> "read_env", l |-> [l EXCEPT !.backend_by_global_setting = forced]]

\* a plausible slip: the override is read before the two fixed backends
\* are tested
body_reads_override_first(l, forced) ==
    IF l.key.is_blocksparse
    THEN [next |-> "store",
          l |-> [l EXCEPT !.backend_by_global_setting = forced,
                          !.result = BlocksparseFlashAttentionBackend]]
    ELSE IF l.key.is_attention_free
    THEN [next |-> "store",
          l |-> [l EXCEPT !.backend_by_global_setting = forced,
                          !.result = PlaceholderAttentionBackend]]
    ELSE IF forced # NoBackend
    THEN [next |-> "platform",
          l |-> [l EXCEPT !.backend_by_global_setting = forced,
                          !.selected_backend = forced]]
    ELSE [next |-> "read_env", l |-> l]

\* lines 116-135: the two fixed backends, then the forced override
body(l, forced) ==
    IF l.key.is_blocksparse
    THEN [next |-> "store", l |-> [l EXCEPT !.result = BlocksparseFlashAttentionBackend]]
    ELSE IF l.key.is_attention_free
    THEN [next |-> "store", l |-> [l EXCEPT !.result = PlaceholderAttentionBackend]]
    ELSE IF forced # NoBackend
    THEN [next |-> "platform",
          l |-> [l EXCEPT !.backend_by_global_setting = forced,
                          !.selected_backend = forced]]
    ELSE [next |-> "read_env", l |-> l]

Body(t) ==
    /\ pc[t] = "body"
    /\ LET step == body(local[t], get_global_forced_attn_backend)
       IN  /\ pc' = [pc EXCEPT ![t] = step.next]
           /\ local' = [local EXCEPT ![t] = step.l]
    /\ UNCHANGED <<forced_attn_backend, VLLM_ATTENTION_BACKEND, VLLM_USE_V1,
                   cache, stack, obs, observed, mutex, host_serializes, pvars>>

\* a plausible slip: the environment variable is read and not used
env_select_unused(l, env) == [l EXCEPT !.backend_by_env_var = env]

\* lines 138-140: with nothing forced, the environment variable if it is set
env_select(l, env) ==
    [l EXCEPT !.backend_by_env_var = env,
              !.selected_backend =
                  IF env # EnvUnset THEN backend_name_to_enum(env)
                  ELSE l.selected_backend]

ReadEnv(t) ==
    /\ pc[t] = "read_env"
    /\ local' = [local EXCEPT ![t] = env_select(@, VLLM_ATTENTION_BACKEND)]
    /\ pc' = [pc EXCEPT ![t] = "platform"]
    /\ UNCHANGED <<forced_attn_backend, VLLM_ATTENTION_BACKEND, VLLM_USE_V1,
                   cache, stack, obs, observed, mutex, host_serializes, pvars>>

\* a plausible slip: an empty answer is retried with no selection
ask_platform_with_fallback(l) ==
    LET first == PlatformFor(l.selected_backend, l.key)
    IN  IF first # <<>>
        THEN [l EXCEPT !.platform_calls = @ + 1, !.attention_cls = first]
        ELSE [l EXCEPT !.platform_calls = @ + 2, !.selected_backend = NoBackend,
                       !.attention_cls = PlatformFor(NoBackend, l.key)]

\* lines 143-145: ask the platform
ask_platform(l) ==
    [l EXCEPT !.platform_calls = @ + 1,
              !.attention_cls = PlatformFor(l.selected_backend, l.key)]

\* a plausible slip: the empty answer is kept in the memo table before the
\* error is raised
PlatformKeepsFailure(t) ==
    /\ pc[t] = "platform"
    /\ LET l == ask_platform(local[t])
       IN  IF l.attention_cls = <<>>
           THEN /\ obs' = Completed("resolve", t, "ValueError", l,
                                    forced_attn_backend, forced_attn_backend)
                /\ pc' = [pc EXCEPT ![t] = "idle"]
                /\ local' = [local EXCEPT ![t] = NoLocal]
                /\ cache' = DictSet(cache, l.key, NoClass)
           ELSE /\ local' = [local EXCEPT ![t] =
                               [l EXCEPT !.result =
                                   resolve_obj_by_qualname(l.attention_cls)]]
                /\ pc' = [pc EXCEPT ![t] = "store"]
                /\ obs' = obs
                /\ cache' = cache
    /\ UNCHANGED <<forced_attn_backend, VLLM_ATTENTION_BACKEND, VLLM_USE_V1,
                   stack, observed, mutex, host_serializes, pvars>>

\* lines 143-149: ask the platform, raise on an empty answer, else load the class
Platform(t) ==
    /\ pc[t] = "platform"
    /\ LET l == ask_platform(local[t])
       IN  IF l.attention_cls = <<>>
           THEN /\ obs' = Completed("resolve", t, "ValueError", l,
                                    forced_attn_backend, forced_attn_backend)
                /\ pc' = [pc EXCEPT ![t] = "idle"]
                /\ local' = [local EXCEPT ![t] = NoLocal]
           ELSE /\ local' = [local EXCEPT ![t] =
                               [l EXCEPT !.result =
                                   resolve_obj_by_qualname(l.attention_cls)]]
                /\ pc' = [pc EXCEPT ![t] = "store"]
                /\ obs' = obs
    /\ UNCHANGED <<forced_attn_backend, VLLM_ATTENTION_BACKEND, VLLM_USE_V1,
                   cache, stack, observed, mutex, host_serializes, pvars>>

\* a plausible slip: the result is handed back and never kept
cache_store_nothing(d, key, value) == d

\* line 105, functools.cache: keep what the function returned
cache_store(d, key, value) == DictSet(d, key, value)

Store(t) ==
    /\ pc[t] = "store"
    /\ cache' = cache_store(cache, local[t].key, local[t].result)
    /\ Return(t, local[t])
    /\ UNCHANGED <<forced_attn_backend, VLLM_ATTENTION_BACKEND, VLLM_USE_V1,
                   stack, mutex, host_serializes, pvars>>

(***************************************************************************)
(* One thread: every operation, one call at a time.                        *)
(***************************************************************************)
Main == "T1"

Next ==
    \/ \E v \in ForcedValues : SetForced(Main, v)
    \/ GetForced(Main)
    \/ \E v \in EnvValues : SetEnv(Main, v)
    \/ \E b \in BOOLEAN : SetFlag(Main, b)
    \/ stack[Main] = <<>> /\ \E v \in BackendValues : EnterRead(Main, v)
    \/ EnterSet(Main)
    \/ \E how \in {"return", "raise"} : ExitScope(Main, how)
    \/ \E a \in Args : Call(Main, a)
    \/ Lookup(Main)
    \/ Body(Main)
    \/ ReadEnv(Main)
    \/ Platform(Main)
    \/ Store(Main)

Spec == Init /\ [][Next]_vars

(***************************************************************************)
(* One thread: the override operations alone, scoped overrides nested.     *)
(***************************************************************************)
NextNested ==
    \/ \E v \in ForcedValues : SetForced(Main, v)
    \/ GetForced(Main)
    \/ \E v \in BackendValues : EnterRead(Main, v)
    \/ EnterSet(Main)
    \/ \E how \in {"return", "raise"} : ExitScope(Main, how)

SpecNested == Init /\ [][NextNested]_vars

(***************************************************************************)
(* Two threads resolve regular backends while the override changes.        *)
(***************************************************************************)
NextRace ==
    \E t \in Threads :
        \/ \E v \in ForcedValues : SetForced(t, v)
        \/ \E a \in PlainArgs : Call(t, a)
        \/ Lookup(t)
        \/ Body(t)
        \/ ReadEnv(t)
        \/ Platform(t)
        \/ Store(t)

SpecRace == Init /\ [][NextRace]_vars

(***************************************************************************)
(* Two threads run scoped overrides, with or without a host lock around    *)
(* each block.                                                             *)
(***************************************************************************)
\* the host lets the thread change the override
Permitted(t) == host_serializes => mutex = t

\* the host takes its lock before a block
Acquire(t) ==
    /\ host_serializes
    /\ mutex = "free"
    /\ pc[t] = "idle"
    /\ mutex' = t
    /\ obs' = NoObs
    /\ UNCHANGED <<forced_attn_backend, VLLM_ATTENTION_BACKEND, VLLM_USE_V1,
                   cache, pc, local, stack, observed, host_serializes, pvars>>

\* the host gives its lock back after the block
Release(t) ==
    /\ mutex = t
    /\ pc[t] = "idle"
    /\ stack[t] = <<>>
    /\ mutex' = "free"
    /\ UNCHANGED <<forced_attn_backend, VLLM_ATTENTION_BACKEND, VLLM_USE_V1,
                   cache, pc, local, stack, obs, observed, host_serializes, pvars>>

InitScopes ==
    /\ forced_attn_backend = NoBackend
    /\ VLLM_ATTENTION_BACKEND = EnvUnset
    /\ VLLM_USE_V1 = FALSE
    /\ cache = EmptyDict
    /\ pc = [t \in Threads |-> "idle"]
    /\ local = [t \in Threads |-> NoLocal]
    /\ stack = [t \in Threads |-> <<>>]
    /\ obs = NoObs
    /\ observed = EmptyDict
    /\ mutex = "free"
    /\ host_serializes \in BOOLEAN
    /\ PassesIdle

NextScopes ==
    \E t \in Threads :
        \/ Acquire(t)
        \/ Release(t)
        \/ Permitted(t) /\ stack[t] = <<>> /\ \E v \in BackendValues : EnterRead(t, v)
        \/ EnterSet(t)
        \/ \E how \in {"return", "raise"} : ExitScope(t, how)

SpecScopes == InitScopes /\ [][NextScopes]_vars

(***************************************************************************)
(* The hashing functions on their own: the arguments of the one call are   *)
(* drawn at the start.                                                     *)
(***************************************************************************)
svars ==
    <<forced_attn_backend, VLLM_ATTENTION_BACKEND, VLLM_USE_V1, cache, pc,
      local, stack, obs, observed, mutex, host_serializes>>

\* nothing of the selector has run
SelectorIdle ==
    /\ forced_attn_backend = NoBackend
    /\ VLLM_ATTENTION_BACKEND = EnvUnset
    /\ VLLM_USE_V1 = FALSE
    /\ cache = EmptyDict
    /\ pc = [t \in Threads |-> "idle"]
    /\ local = [t \in Threads |-> NoLocal]
    /\ stack = [t \in Threads |-> <<>>]
    /\ obs = NoObs
    /\ observed = EmptyDict
    /\ mutex = "free"
    /\ host_serializes = FALSE

\* InductorPass.hash_source(*input.srcs)
HashSource ==
    /\ input.op = "hash_source"
    /\ ident = NoIdent
    /\ LET r == hash_source(input.srcs)
       IN  ident' = Identified("hash_source", r.outcome, r.digest, 0, NoPass,
                               NoDigest)
    /\ UNCHANGED <<svars, source, passes, input, prev>>

\* InductorPass.hash_dict(input.dict_)
HashDict ==
    /\ input.op = "hash_dict"
    /\ ident = NoIdent
    /\ ident' = Identified("hash_dict", "return", hash_dict(input.dict_), 0,
                           NoPass, NoDigest)
    /\ UNCHANGED <<svars, source, passes, input, prev>>

InitHash ==
    /\ SelectorIdle
    /\ source = LoadedSource
    /\ passes = <<>>
    /\ input \in Inputs
    /\ ident = NoIdent
    /\ prev = NoIdent

NextHash == HashSource \/ HashDict

SpecHash == InitHash /\ [][NextHash]_vars

(***************************************************************************)
(* Pass objects: construction, uuid(), __call__, and what changes around   *)
(* them.                                                                   *)
(***************************************************************************)
\* a plausible slip: the class that defines uuid is hashed, not type(self)
InductorPass_uuid_of_defining_class(self) == hash_source(<<ObjectSrc("PassA")>>)

\* InductorPass.uuid, lines 28-34: hash_source(self)
InductorPass_uuid(self) == hash_source(<<ObjectSrc(self.cls)>>)

\* a plausible slip: the digest is computed again on every call
CallableInductorPass_uuid_recomputed(self) == hash_source(<<self.callable>>)

\* CallableInductorPass.uuid, lines 79-80
CallableInductorPass_uuid(self) == [outcome |-> "return", digest |-> self._uuid]

\* self.uuid(): the method of the object's class
self_uuid(self) ==
    IF self.cls = "CallableInductorPass"
    THEN CallableInductorPass_uuid(self)
    ELSE InductorPass_uuid(self)

\* CallableInductorPass.__init__, lines 70-74 (uuid None is NoDigest)
CallableInductorPass_init(callable, uuid) ==
    IF uuid = NoDigest
    THEN LET h == hash_source(<<callable>>)
         IN  [outcome |-> h.outcome,
              self |-> NewPass("CallableInductorPass", callable, h.digest, 0)]
    ELSE [outcome |-> "return",
          self |-> NewPass("CallableInductorPass", callable, uuid, 0)]

\* the uuid call before the operation now recorded
Shift == IF ident.op = "uuid" THEN ident ELSE prev

\* an instance of a pass class is made
Construct(cls, field) ==
    /\ Len(passes) < MaxPasses
    /\ passes' = Append(passes, NewPass(cls, NoSrc, NoDigest, field))
    /\ UNCHANGED <<svars, source, input, ident, prev>>

\* CallableInductorPass(callable, uuid): an exception leaves no object
ConstructCallable(callable, uuid) ==
    /\ Len(passes) < MaxPasses
    /\ LET r == CallableInductorPass_init(callable, uuid)
       IN  /\ passes' = IF r.outcome = "return" THEN Append(passes, r.self)
                        ELSE passes
           /\ ident' = Identified("construct", r.outcome, r.self._uuid,
                                  IF r.outcome = "return" THEN Len(passes) + 1
                                  ELSE 0,
                                  r.self, uuid)
    /\ prev' = Shift
    /\ UNCHANGED <<svars, source, input>>

\* an attribute of a pass object is assigned
MutateField(i, v) ==
    /\ i \in DOMAIN passes
    /\ passes[i].cls \in PassClasses
    /\ passes[i].field # v
    /\ passes' = [passes EXCEPT ![i].field = v]
    /\ UNCHANGED <<svars, source, input, ident, prev>>

\* CallableInductorPass.__call__, lines 76-77
Invoke(i) ==
    /\ i \in DOMAIN passes
    /\ passes[i].cls = "CallableInductorPass"
    /\ passes' = [passes EXCEPT ![i].invoked = TRUE]
    /\ UNCHANGED <<svars, source, input, ident, prev>>

\* the text of a definition is rewritten
EditSource(n, text) ==
    /\ n \in DOMAIN source
    /\ source[n] # text
    /\ source' = [source EXCEPT ![n] = text]
    /\ UNCHANGED <<svars, passes, input, ident, prev>>

\* passes[i].uuid()
Uuid(i) ==
    /\ i \in DOMAIN passes
    /\ LET r == self_uuid(passes[i])
       IN  ident' = Identified("uuid", r.outcome, r.digest, i, passes[i],
                               NoDigest)
    /\ prev' = Shift
    /\ UNCHANGED <<svars, source, passes, input>>

InitIdentity == SelectorIdle /\ PassesIdle

\* instances of pass classes with the default uuid
NextClassPass ==
    \/ \E cls \in PassClasses, field \in {0, 1} : Construct(cls, field)
    \/ \E i \in 1..MaxPasses, v \in {0, 1} : MutateField(i, v)
    \/ \E n \in PassClasses, text \in EditedTexts : EditSource(n, text)
    \/ \E i \in 1..MaxPasses : Uuid(i)

SpecClassPass == InitIdentity /\ [][NextClassPass]_vars

\* wrapped callables
NextCallablePass ==
    \/ \E callable \in Callables, u \in GivenUuids \cup {NoDigest} :
           ConstructCallable(callable, u)
    \/ \E i \in 1..MaxPasses : Invoke(i)
    \/ \E n \in {c.name : c \in Callables}, text \in EditedTexts :
           EditSource(n, text)
    \/ \E i \in 1..MaxPasses : Uuid(i)

SpecCallablePass == InitIdentity /\ [][NextCallablePass]_vars

(***************************************************************************)
(* Properties.  obs is the operation that has just completed: nothing has  *)
(* changed since, so the globals are those the operation left.             *)
(***************************************************************************)
Resolved == obs.op = "resolve"

Returned == Resolved /\ obs.outcome = "return"

PlainKey(k) == ~k.is_blocksparse /\ ~k.is_attention_free

\* the class the caller gets when the platform is asked for this selection
ClassFor(selected, key) ==
    IF PlatformFor(selected, key) = <<>> THEN NoClass
    ELSE resolve_obj_by_qualname(PlatformFor(selected, key))

\* the precedence of section 4.1: forced override, then a recognized
\* environment name, then no selection
Selection(forced, env) ==
    IF forced # NoBackend THEN forced
    ELSE IF env \in DOMAIN Backend THEN Backend[env]
    ELSE NoBackend

\* C1: when a scoped override exits, by return or by error, the forced
\* override is again what it was immediately before the scope was entered;
\* an inner scope so restores the variant its outer scope installed.
C1_ScopeExitRestores ==
    obs.op = "exit" => forced_attn_backend = obs.before

\* C1 witness: an inner scope left by an error restores the variant of the
\* outer scope, which is not what the outer scope will restore.
C1_Witness ==
    /\ obs.op = "exit"
    /\ obs.outcome = "raise"
    /\ Len(stack[Main]) = 1
    /\ obs.before \in BackendValues
    /\ forced_attn_backend = obs.before
    /\ stack[Main][1].original_value # obs.before

\* C2 as stated: every call that returns while V is forced, for a regular
\* key, returns the class the platform gives for V.
C2_ForcedWinsOnEveryCall ==
    (Returned /\ PlainKey(obs.call.key) /\ forced_attn_backend # NoBackend)
        => obs.call.result = ClassFor(forced_attn_backend, obs.call.key)

\* C2 amended: a call made while V is forced, for a regular key that no
\* earlier call has returned a class for, returns the class the platform
\* gives for V, or raises when the platform gives none for V; the
\* environment variable is not consulted.
C2_ForcedWinsOnFirstResolution ==
    (Resolved /\ PlainKey(obs.call.key) /\ ~obs.call.known
              /\ forced_attn_backend # NoBackend)
        => /\ obs.call.selected_backend = forced_attn_backend
           /\ IF PlatformFor(forced_attn_backend, obs.call.key) = <<>>
              THEN obs.outcome = "ValueError"
              ELSE /\ obs.outcome = "return"
                   /\ obs.call.result =
                          ClassFor(forced_attn_backend, obs.call.key)

\* C2 witness: V is forced, the environment names another variant W whose
\* class differs, and the call returned the class of V.
C2_Witness ==
    /\ Returned
    /\ PlainKey(obs.call.key)
    /\ ~obs.call.known
    /\ forced_attn_backend # NoBackend
    /\ VLLM_ATTENTION_BACKEND \in DOMAIN Backend
    /\ Backend[VLLM_ATTENTION_BACKEND] # forced_attn_backend
    /\ obs.call.result = ClassFor(forced_attn_backend, obs.call.key)
    /\ obs.call.result # ClassFor(Backend[VLLM_ATTENTION_BACKEND], obs.call.key)

\* C3: a call with is_blocksparse set returns the block-sparse backend,
\* whatever the override, the environment, the flag and the other parameters.
C3_BlocksparseAlways ==
    (Resolved /\ obs.call.key.is_blocksparse)
        => /\ obs.outcome = "return"
           /\ obs.call.result = BlocksparseFlashAttentionBackend

\* C3 witness: block-sparse and attention-free both set, a variant forced,
\* the environment naming a variant, the flag on.
C3_Witness ==
    /\ Returned
    /\ obs.call.key.is_blocksparse
    /\ obs.call.key.is_attention_free
    /\ obs.call.key.use_v1
    /\ forced_attn_backend # NoBackend
    /\ VLLM_ATTENTION_BACKEND \in DOMAIN Backend
    /\ obs.call.result = BlocksparseFlashAttentionBackend

\* C4: a call with is_attention_free set and is_blocksparse clear returns
\* the placeholder backend, whatever the override and the environment.
C4_AttentionFreeAlways ==
    (Resolved /\ obs.call.key.is_attention_free /\ ~obs.call.key.is_blocksparse)
        => /\ obs.outcome = "return"
           /\ obs.call.result = PlaceholderAttentionBackend

\* C4 witness: attention-free with a variant forced and the environment
\* naming a variant.
C4_Witness ==
    /\ Returned
    /\ obs.call.key.is_attention_free
    /\ ~obs.call.key.is_blocksparse
    /\ forced_attn_backend # NoBackend
    /\ VLLM_ATTENTION_BACKEND \in DOMAIN Backend
    /\ obs.call.result = PlaceholderAttentionBackend

\* C5: a call for a key that an earlier call returned a class for is served
\* from the memo table: it returns the stored class and the platform is not
\* asked; no call asks the platform more than once; an entry, once a class
\* was returned for its key, stays in the table unchanged.
C5_MemoizedOnce ==
    /\ (Resolved /\ obs.call.known)
           => /\ obs.outcome = "return"
              /\ obs.call.hit
              /\ obs.call.platform_calls = 0
              /\ obs.call.key \in DOMAIN cache
              /\ obs.call.result = cache[obs.call.key]
    /\ Resolved => obs.call.platform_calls <= 1
    /\ \A k \in DOMAIN observed : k \in DOMAIN cache /\ cache[k] = observed[k]

\* C5 witness: a repeated call for a regular key, answered from the table.
C5_Witness ==
    /\ Returned
    /\ obs.call.known
    /\ obs.call.hit
    /\ PlainKey(obs.call.key)
    /\ obs.call.platform_calls = 0
    /\ Cardinality(DOMAIN cache) = MaxCached

\* C6: every class returned for a key is the class first returned for it,
\* whatever has happened to the override and the environment since.
C6_FirstResultSticks ==
    /\ Returned => obs.call.result = observed[obs.call.key]
    /\ (Resolved /\ obs.call.known) => obs.outcome = "return"

\* C6 witness: the scope is closed and nothing is forced, yet the key keeps
\* the class of the variant that was forced when it was first resolved; a
\* fresh resolution would now give another class.
C6_Witness ==
    /\ Returned
    /\ obs.call.known
    /\ PlainKey(obs.call.key)
    /\ stack[Main] = <<>>
    /\ forced_attn_backend = NoBackend
    /\ VLLM_ATTENTION_BACKEND = EnvUnset
    /\ obs.call.result = ClassFor(Backend.XFORMERS, obs.call.key)
    /\ obs.call.result # ClassFor(NoBackend, obs.call.key)

\* C7: with nothing forced, a regular key not resolved before and an
\* environment name that is no member of the enum, the platform is asked
\* once with no selection and the call ends as it does with the variable
\* unset.
C7_UnknownNameFallsThrough ==
    (Resolved /\ PlainKey(obs.call.key) /\ ~obs.call.known
              /\ forced_attn_backend = NoBackend
              /\ VLLM_ATTENTION_BACKEND # EnvUnset
              /\ VLLM_ATTENTION_BACKEND \notin DOMAIN Backend)
        => /\ obs.call.selected_backend = NoBackend
           /\ obs.call.platform_calls = 1
           /\ obs.call.attention_cls = PlatformFor(NoBackend, obs.call.key)
           /\ IF PlatformFor(NoBackend, obs.call.key) = <<>>
              THEN obs.outcome = "ValueError"
              ELSE /\ obs.outcome = "return"
                   /\ obs.call.result = ClassFor(NoBackend, obs.call.key)

\* C7 witness: the unknown name was read and the call returned the
\* platform's default.
C7_Witness ==
    /\ Returned
    /\ PlainKey(obs.call.key)
    /\ ~obs.call.known
    /\ forced_attn_backend = NoBackend
    /\ obs.call.backend_by_env_var = "NOT_A_REAL_BACKEND"
    /\ VLLM_ATTENTION_BACKEND = "NOT_A_REAL_BACKEND"
    /\ obs.call.result = ClassFor(NoBackend, obs.call.key)

\* C8: for a regular key not resolved before, when the platform has no
\* class for the selection, the call raises, returns no class, stores
\* nothing, and has asked the platform once, for that selection.
C8_EmptyAnswerRaises ==
    (Resolved /\ PlainKey(obs.call.key) /\ ~obs.call.known
        /\ PlatformFor(Selection(forced_attn_backend, VLLM_ATTENTION_BACKEND),
                       obs.call.key) = <<>>)
        => /\ obs.outcome = "ValueError"
           /\ obs.call.result = NoClass
           /\ obs.call.platform_calls = 1
           /\ obs.call.selected_backend =
                  Selection(forced_attn_backend, VLLM_ATTENTION_BACKEND)
           /\ obs.call.key \notin DOMAIN cache
           /\ obs.call.key \notin DOMAIN observed

\* C8 witness: FLASH_ATTN is forced for a dtype it does not serve, though
\* the platform would serve the request with no selection.
C8_Witness ==
    /\ Resolved
    /\ obs.outcome = "ValueError"
    /\ forced_attn_backend = Backend.FLASH_ATTN
    /\ obs.call.key.dtype = "float32"
    /\ PlatformFor(NoBackend, obs.call.key) # <<>>
    /\ obs.call.platform_calls = 1

\* C9 as stated: under concurrent first-time calls for one key, with the
\* override changing in between, every caller is handed the class first
\* handed out for the key, and the table keeps that class.
C9_ConcurrentCallersAgree ==
    /\ Returned => obs.call.result = observed[obs.call.key]
    /\ \A k \in DOMAIN observed : k \in DOMAIN cache /\ cache[k] = observed[k]

\* no thread is inside a scoped override or on its way into one
Quiescent == \A t \in Threads : pc[t] = "idle" /\ stack[t] = <<>>

\* C10: when the host serializes the blocks with its lock, every exit
\* restores what its entry saw, and once all blocks have exited the
\* override is the original one.
C10_SerializedScopesRestore ==
    host_serializes
        => /\ obs.op = "exit" => forced_attn_backend = obs.before
           /\ Quiescent => forced_attn_backend = NoBackend

\* C10 witness: without the lock, T2 entered while T1's variant was in
\* place and exited last; both blocks are closed and the override is T1's
\* variant, not the original None.
C10_Witness ==
    /\ ~host_serializes
    /\ Quiescent
    /\ obs.op = "exit"
    /\ obs.thread = "T2"
    /\ obs.before \in BackendValues
    /\ forced_attn_backend = obs.before
    /\ forced_attn_backend # NoBackend

\* C13: the flag is read when the call is made and is part of the key: the
\* key of a call carries the flag's current value, the platform is asked
\* with that value, and a class returned for a regular key is one the
\* platform gives under that value, not an entry kept under the other one.
C13_FlagSnapshotInKey ==
    Resolved
        => /\ obs.call.key.use_v1 = VLLM_USE_V1
           /\ obs.call.platform_calls > 0
                  => obs.call.attention_cls =
                         get_attn_backend_cls(obs.call.selected_backend,
                             obs.call.key.head_size, obs.call.key.dtype,
                             obs.call.key.kv_cache_dtype,
                             obs.call.key.block_size, VLLM_USE_V1,
                             obs.call.key.use_mla)
           /\ (obs.outcome = "return" /\ PlainKey(obs.call.key))
                  => \E v \in ForcedValues :
                         obs.call.result =
                             ClassFor(v, [obs.call.key EXCEPT !.use_v1 = VLLM_USE_V1])

\* C13 witness: the same parameters are cached under the other flag value
\* with another class; the call missed and asked the platform.
C13_Witness ==
    /\ Returned
    /\ PlainKey(obs.call.key)
    /\ ~obs.call.hit
    /\ obs.call.platform_calls = 1
    /\ obs.call.key.use_v1 = VLLM_USE_V1
    /\ LET other == [obs.call.key EXCEPT !.use_v1 = ~VLLM_USE_V1]
       IN  /\ other \in DOMAIN cache
           /\ cache[other] # obs.call.result

\* C14: with nothing forced and a regular key not resolved before, an
\* environment name that is a member of the enum is the selection the
\* platform is asked with; with the variable unset the platform is asked
\* with no selection.
C14_EnvironmentSelects ==
    (Resolved /\ PlainKey(obs.call.key) /\ ~obs.call.known
              /\ forced_attn_backend = NoBackend)
        => /\ VLLM_ATTENTION_BACKEND \in DOMAIN Backend
                  => /\ obs.call.selected_backend = Backend[VLLM_ATTENTION_BACKEND]
                     /\ obs.call.platform_calls = 1
                     /\ obs.call.attention_cls =
                            PlatformFor(Backend[VLLM_ATTENTION_BACKEND], obs.call.key)
           /\ VLLM_ATTENTION_BACKEND = EnvUnset
                  => /\ obs.call.selected_backend = NoBackend
                     /\ obs.call.platform_calls = 1
                     /\ obs.call.attention_cls = PlatformFor(NoBackend, obs.call.key)

\* C14 witness: the environment names XFORMERS and the call returned its
\* class, which is not the platform's default for the key.
C14_Witness ==
    /\ Returned
    /\ PlainKey(obs.call.key)
    /\ ~obs.call.known
    /\ forced_attn_backend = NoBackend
    /\ VLLM_ATTENTION_BACKEND = "XFORMERS"
    /\ obs.call.selected_backend = Backend.XFORMERS
    /\ obs.call.result = ClassFor(Backend.XFORMERS, obs.call.key)
    /\ obs.call.result # ClassFor(NoBackend, obs.call.key)

\* C15: global_force_attn_backend(v) leaves the override at v, None
\* included, whatever it was, and leaves the memo table alone;
\* get_global_forced_attn_backend returns the override and changes neither.
C15_SetAndGetFrame ==
    [][/\ obs'.op = "set"
           => /\ forced_attn_backend' = obs'.after
              /\ cache' = cache
       /\ obs'.op = "get"
           => /\ obs'.after = forced_attn_backend
              /\ forced_attn_backend' = forced_attn_backend
              /\ cache' = cache]_vars

\* C15 witness: a forced variant has just been cleared with None, with
\* entries in the memo table.
C15_Witness ==
    /\ obs.op = "set"
    /\ obs.before # NoBackend
    /\ obs.after = NoBackend
    /\ forced_attn_backend = NoBackend
    /\ cache # EmptyDict

\* C18: a call that raises leaves the memo table as it was, without an
\* entry for its key; the table holds exactly the classes that were
\* returned; a regular key with no class returned yet always has the
\* platform asked.
C18_FailureNotMemoized ==
    /\ [](/\ DOMAIN cache = DOMAIN observed
          /\ \A k \in DOMAIN cache : cache[k] = observed[k] /\ cache[k] # NoClass
          /\ (Resolved /\ obs.outcome = "ValueError")
                 => obs.call.key \notin DOMAIN cache
          /\ (Resolved /\ PlainKey(obs.call.key) /\ ~obs.call.known)
                 => obs.call.platform_calls = 1)
    /\ [][(pc[Main] = "platform" /\ obs'.outcome = "ValueError")
              => cache' = cache]_vars

\* C18 witness: the call raised with other entries in the table, its key
\* is not among them, and the platform would serve the key once XFORMERS
\* is forced.
C18_Witness ==
    /\ Resolved
    /\ obs.outcome = "ValueError"
    /\ cache # EmptyDict
    /\ obs.call.key \notin DOMAIN cache
    /\ PlatformFor(Backend.XFORMERS, obs.call.key) # <<>>

\* C19: a call with is_blocksparse or is_attention_free set reads neither
\* the override nor the environment variable, does not ask the platform,
\* and returns.
C19_FixedBackendsReadNothing ==
    (Resolved /\ ~PlainKey(obs.call.key))
        => /\ obs.outcome = "return"
           /\ obs.call.platform_calls = 0
           /\ obs.call.attention_cls = <<>>
           /\ obs.call.backend_by_global_setting = NoBackend
           /\ obs.call.backend_by_env_var = EnvUnset
           /\ obs.call.selected_backend = NoBackend

\* C19 witness: an attention-free call that missed the table while a
\* variant was forced and the environment named one.
C19_Witness ==
    /\ Returned
    /\ ~PlainKey(obs.call.key)
    /\ ~obs.call.hit
    /\ forced_attn_backend = Backend.FLASH_ATTN
    /\ VLLM_ATTENTION_BACKEND = "XFORMERS"
    /\ obs.call.backend_by_global_setting = NoBackend

(***************************************************************************)
(* Properties of the pass identities.  ident is the hash or uuid           *)
(* operation that has just completed, prev the uuid call before it.        *)
(***************************************************************************)
\* every argument has a text to add
AllReturn(srcs) == \A i \in DOMAIN srcs : src_str(srcs[i]).outcome = "return"

\* the texts of the arguments, one after the other
RECURSIVE Joined(_)
Joined(srcs) ==
    IF srcs = <<>> THEN <<>>
    ELSE src_str(Head(srcs)).text \o Joined(Tail(srcs))

\* the arguments with those at i and j exchanged
Swapped(srcs, i, j) == [srcs EXCEPT ![i] = srcs[j], ![j] = srcs[i]]

\* the classes whose instances can be called
CallableClasses == {"Functor"}

Callable(src) ==
    \/ src.kind \in {"function", "method", "builtin"}
    \/ src.kind = "object" /\ src.name \in CallableClasses

\* the entries of a mapping, as Python compares them
Pairs(d) == {d[i] : i \in DOMAIN d}

\* the entries as JSON can tell them apart: a tuple reads as a list
JsonPairs(d) ==
    {[key |-> d[i].key,
      value |-> IF d[i].value.kind = "tuple" THEN ListValue(d[i].value.items)
                ELSE d[i].value] : i \in DOMAIN d}

\* the mapping with its entries inserted in the opposite order
Reversed(d) == [i \in DOMAIN d |-> d[Len(d) + 1 - i]]

ClassUuid(o) == o.op = "uuid" /\ o.cls \in PassClasses

\* C11 as stated: hash_dict gives two mappings the same digest exactly
\* when they hold the same key-value pairs, whatever the insertion order.
C11_DigestsEqualIffSamePairs ==
    ident.op = "hash_dict"
        => \A d \in Dicts :
               hash_dict(d) = ident.digest <=> Pairs(d) = Pairs(input.dict_)

\* C11: hash_dict gives the same digest for every insertion order of the
\* same pairs, and two mappings have the same digest exactly when their
\* entries are the same once a tuple is read as the list JSON writes it as.
C11_DigestsEqualIffSameJson ==
    ident.op = "hash_dict"
        => /\ ident.outcome = "return"
           /\ \A d \in Dicts :
                  /\ Pairs(d) = Pairs(input.dict_) => hash_dict(d) = ident.digest
                  /\ hash_dict(d) = ident.digest
                         <=> JsonPairs(d) = JsonPairs(input.dict_)

\* C11 witness: two entries inserted against the order of their keys are
\* written {"a": [1, 2], "\u00e9": 1}, and the digest is that of the
\* mapping built in the other order.
C11_Witness ==
    /\ ident.op = "hash_dict"
    /\ input.dict_ = <<[key |-> <<"e_acute">>, value |-> IntValue(1)],
                       [key |-> <<"a">>, value |-> ListValue(<<1, 2>>)]>>
    /\ json_dumps(input.dict_, TRUE) =
           <<"{", "\"", "a", "\"", ":", " ", "[", "1", ",", " ", "2", "]",
             ",", " ", "\"", "\\", "u", "0", "0", "e", "9", "\"", ":", " ",
             "1", "}">>
    /\ ident.digest = hash_dict(Reversed(input.dict_))
    /\ Reversed(input.dict_) # input.dict_

\* C16 as stated: a text is hashed as it is; a callable of any kind whose
\* implementation has source text adds that text (for an instance of a
\* class with __call__, the text of that class); an instance that cannot be
\* called adds the text of its class.
C16_EveryCallableAddsOwnSource ==
    (ident.op = "hash_source" /\ Len(input.srcs) = 1)
        => LET src == input.srcs[1]
           IN  /\ src.kind = "str"
                      => /\ ident.outcome = "return"
                         /\ ident.digest = hexdigest(encode(src.text))
               /\ (Callable(src) /\ src.name \in DOMAIN source)
                      => /\ ident.outcome = "return"
                         /\ ident.digest = hexdigest(encode(source[src.name]))
               /\ (src.kind = "object" /\ ~Callable(src)
                       /\ src.name \in DOMAIN source)
                      => /\ ident.outcome = "return"
                         /\ ident.digest = hexdigest(encode(source[src.name]))

\* C17: the digest of several arguments is the digest of their texts
\* joined in call order: it is the digest of the one joined text, of every
\* split of it in two, and of the arguments with two exchanged exactly when
\* the joined text stays the same.
C17_DigestOfJoinedTexts ==
    (ident.op = "hash_source" /\ AllReturn(input.srcs))
        => LET whole == Joined(input.srcs)
           IN  /\ ident.outcome = "return"
               /\ ident.digest = hexdigest(encode(whole))
               /\ ident.digest = hash_source(<<StrSrc(whole)>>).digest
               /\ \A k \in 0..Len(whole) :
                      hash_source(<<StrSrc(SubSeq(whole, 1, k)),
                                    StrSrc(SubSeq(whole, k + 1, Len(whole)))>>).digest
                          = ident.digest
               /\ \A i, j \in DOMAIN input.srcs :
                      hash_source(Swapped(input.srcs, i, j)).digest = ident.digest
                          <=> Joined(Swapped(input.srcs, i, j)) = whole

\* C17 witness: two texts, the first not plain ASCII, hashed as one text
\* split elsewhere is, and not as the two exchanged are.
C17_Witness ==
    /\ ident.op = "hash_source"
    /\ input.srcs = <<StrSrc(<<"a", "e_acute">>), StrSrc(<<"a">>)>>
    /\ ident.digest = hexdigest(<<97, 195, 169, 97>>)
    /\ ident.digest =
           hash_source(<<StrSrc(<<"a">>), StrSrc(<<"e_acute", "a">>)>>).digest
    /\ ident.digest # hash_source(Swapped(input.srcs, 1, 2)).digest

\* C12: a CallableInductorPass built with a digest keeps exactly that
\* digest and is built whether or not the callable has source text; built
\* without one it keeps the digest of the callable's source text as it is
\* then; _uuid never changes afterwards, and every uuid() call returns it.
C12_DigestFixedAtConstruction ==
    /\ [](/\ (ident.op = "construct" /\ ident.given # NoDigest)
                 => ident.outcome = "return" /\ ident.digest = ident.given
          /\ (ident.op = "construct" /\ ident.given = NoDigest
                  /\ ident.outcome = "return")
                 => ident.digest = hexdigest(encode(ident.text))
          /\ (ident.op = "construct" /\ ident.outcome = "return")
                 => passes[ident.pass]._uuid = ident.digest
          /\ (ident.op = "uuid" /\ ident.cls = "CallableInductorPass")
                 => /\ ident.outcome = "return"
                    /\ ident.digest = passes[ident.pass]._uuid
                    /\ (prev.op = "uuid" /\ prev.pass = ident.pass)
                           => prev.digest = ident.digest)
    /\ [][\A i \in DOMAIN passes :
              /\ i \in DOMAIN passes'
              /\ passes'[i]._uuid = passes[i]._uuid]_vars

\* C12 witness: uuid() was called twice on a pass wrapping f, built
\* without a digest, invoked in between, f rewritten since; and a pass
\* wrapping g, which has no source text, was built with a digest.
C12_Witness ==
    /\ ident.op = "uuid"
    /\ ident.cls = "CallableInductorPass"
    /\ passes[ident.pass].callable = FunctionSrc("f")
    /\ ident.digest = hexdigest(encode(LoadedSource["f"]))
    /\ source["f"] # LoadedSource["f"]
    /\ ident.state = 1
    /\ prev.op = "uuid"
    /\ prev.pass = ident.pass
    /\ prev.state < ident.state
    /\ \E j \in DOMAIN passes :
           /\ passes[j].callable = FunctionSrc("g")
           /\ passes[j]._uuid \in GivenUuids

\* C20: the default uuid() is the digest of the source text of the
\* instance's own class: two calls, on one instance or on two, in whatever
\* state, return the same digest exactly when the text of the own class is
\* the same at both.
C20_DefaultUuidIsOwnClassSource ==
    /\ ClassUuid(ident)
           => /\ ident.outcome = "return"
              /\ ident.digest = hexdigest(encode(ident.text))
    /\ (ClassUuid(ident) /\ ClassUuid(prev))
           => (ident.digest = prev.digest <=> ident.text = prev.text)

\* C20 witness: two instances of the subclass PassB in different states
\* return the same digest, after PassB was rewritten, while its base class
\* PassA has another text.
C20_Witness ==
    /\ ClassUuid(ident)
    /\ ClassUuid(prev)
    /\ ident.cls = "PassB"
    /\ prev.cls = "PassB"
    /\ ident.pass # prev.pass
    /\ ident.state # prev.state
    /\ ident.digest = prev.digest
    /\ ident.text # LoadedSource["PassB"]
    /\ source["PassA"] # ident.text

=============================================================================
